---- MODULE Spec2Model ----
(***************************************************************************)
(* A model of srctools/filesys.py: the File / FileSystem abstraction, its  *)
(* backends (RawFileSystem, ZipFileSystem, VPKFileSystem,                  *)
(* VirtualFileSystem) and the FileSystemChain overlay.                     *)
(*                                                                         *)
(* Strings are sequences of one-character strings, so that os.path and     *)
(* str methods are computed, not assumed: "d/x" is <<"d", "/", "x">>.      *)
(* os.path is posixpath; whether the host's directory tree folds case is   *)
(* not decided by the code and is a variable of the model (hostFoldsCase). *)
(***************************************************************************)
EXTENDS Integers, Sequences, FiniteSets, TLC

VARIABLES
    hostFoldsCase,  \* the host's directory tree compares names ignoring case
    systems,        \* FileSystemChain.systems: the list of (sys, prefix)
    calls,          \* history: add_sys calls made so far, constructor included
    fsys,           \* the filesystem object an operation is applied to
    other,          \* a second filesystem object (comparisons)
    held,           \* a File obtained earlier from fsys, or NoFile
    result,         \* the outcome of the last operation
    iters,          \* the live generators of walk_folder / walk_folder_repeat
    io_remaps,      \* Context._io_remaps: (name, input) -> list of Outputs
    outputs         \* the output field of every Output object

vars == <<hostFoldsCase, systems, calls, fsys, other, held, result, iters,
          io_remaps, outputs>>

-----------------------------------------------------------------------------
(* str methods *)

\* str.casefold / str.lower on one character of the model's alphabet
LowerChar(c) ==
    CASE c = "D" -> "d"
      [] c = "X" -> "x"
      [] c = "O" -> "o"
      [] c = "R" -> "r"
      [] OTHER -> c

UpperChar(c) ==
    CASE c = "d" -> "D"
      [] c = "x" -> "X"
      [] c = "o" -> "O"
      [] c = "r" -> "R"
      [] OTHER -> c

casefold(s) == [i \in 1..Len(s) |-> LowerChar(s[i])]
lower(s) == [i \in 1..Len(s) |-> LowerChar(s[i])]
upper(s) == [i \in 1..Len(s) |-> UpperChar(s[i])]

\* s.replace('\\', '/')
replace_backslash(s) == [i \in 1..Len(s) |-> IF s[i] = "\\" THEN "/" ELSE s[i]]

startswith(s, p) == Len(p) <= Len(s) /\ SubSeq(s, 1, Len(p)) = p
endswith(s, p) == Len(p) <= Len(s) /\ SubSeq(s, Len(s) - Len(p) + 1, Len(s)) = p

\* s.split('/'): the components, empty ones kept
RECURSIVE SplitFrom(_, _, _)
SplitFrom(s, i, cur) ==
    IF i > Len(s) THEN <<cur>>
    ELSE IF s[i] = "/" THEN <<cur>> \o SplitFrom(s, i + 1, <<>>)
    ELSE SplitFrom(s, i + 1, Append(cur, s[i]))

split(s) == SplitFrom(s, 1, <<>>)

\* '/'.join(comps)
RECURSIVE sep_join(_)
sep_join(comps) ==
    IF Len(comps) = 0 THEN <<>>
    ELSE IF Len(comps) = 1 THEN comps[1]
    ELSE comps[1] \o <<"/">> \o sep_join(Tail(comps))

-----------------------------------------------------------------------------
(* os.path (posixpath) *)

dot == <<".">>
dotdot == <<".", ".">>

\* The process's working directory, os.getcwd().
getcwd == <<"/", "w">>

isabs(p) == startswith(p, <<"/">>)

\* os.path.join(a, b)
join(a, b) ==
    IF startswith(b, <<"/">>) THEN b
    ELSE IF Len(a) = 0 \/ endswith(a, <<"/">>) THEN a \o b
    ELSE a \o <<"/">> \o b

\* The loop of normpath over the components.
RECURSIVE NormComps(_, _, _)
NormComps(comps, new_comps, initial_slashes) ==
    IF Len(comps) = 0 THEN new_comps
    ELSE LET comp == Head(comps) IN
        IF comp = <<>> \/ comp = dot
        THEN NormComps(Tail(comps), new_comps, initial_slashes)
        ELSE IF \/ comp # dotdot
                \/ (initial_slashes = 0 /\ Len(new_comps) = 0)
                \/ (Len(new_comps) > 0 /\ new_comps[Len(new_comps)] = dotdot)
        THEN NormComps(Tail(comps), Append(new_comps, comp), initial_slashes)
        ELSE IF Len(new_comps) > 0
        THEN NormComps(Tail(comps), SubSeq(new_comps, 1, Len(new_comps) - 1),
                       initial_slashes)
        ELSE NormComps(Tail(comps), new_comps, initial_slashes)

\* os.path.normpath(path)
normpath(path) ==
    IF Len(path) = 0 THEN dot
    ELSE LET initial_slashes ==
                 IF ~startswith(path, <<"/">>) THEN 0
                 ELSE IF startswith(path, <<"/", "/">>)
                         /\ ~startswith(path, <<"/", "/", "/">>) THEN 2
                 ELSE 1
             body == sep_join(NormComps(split(path), <<>>, initial_slashes))
             out == [i \in 1..initial_slashes |-> "/"] \o body
         IN IF Len(out) = 0 THEN dot ELSE out

\* os.path.abspath(path)
abspath(path) ==
    IF isabs(path) THEN normpath(path) ELSE normpath(join(getcwd, path))

\* The non-empty components of a path.
NonEmpty(comps) == SelectSeq(comps, LAMBDA c : c # <<>>)

\* The length of the common prefix of two component lists.
RECURSIVE CommonLen(_, _)
CommonLen(a, b) ==
    IF Len(a) = 0 \/ Len(b) = 0 \/ Head(a) # Head(b) THEN 0
    ELSE 1 + CommonLen(Tail(a), Tail(b))

\* os.path.relpath(path, start), for a non-empty path
relpath(path, start) ==
    LET start_list == NonEmpty(split(abspath(start)))
        path_list == NonEmpty(split(abspath(path)))
        i == CommonLen(start_list, path_list)
        rel_list == [k \in 1..(Len(start_list) - i) |-> dotdot]
                    \o SubSeq(path_list, i + 1, Len(path_list))
    IN IF Len(rel_list) = 0 THEN dot ELSE sep_join(rel_list)

-----------------------------------------------------------------------------
(* The host's directory tree, as os.path.isfile / os.walk / open see it *)

\* The regular files on disk (absolute paths), in the order os.walk meets them:
\* /r/x, /r/d/x, /r2/x, /o, /e.zip/x (e.zip is a directory)
DiskFiles ==
    << <<"/", "r", "/", "x">>,
       <<"/", "r", "/", "d", "/", "x">>,
       <<"/", "r", "2", "/", "x">>,
       <<"/", "o">>,
       <<"/", "e", ".", "z", "i", "p", "/", "x">> >>

\* Two names denote the same directory entry on the host.
SameEntry(a, b) == IF hostFoldsCase THEN casefold(a) = casefold(b) ELSE a = b

\* The index in DiskFiles of the file an absolute path names, 0 if none.
DiskIndex(abs_path) ==
    LET hits == {i \in 1..Len(DiskFiles) : SameEntry(DiskFiles[i], abs_path)}
    IN IF hits = {} THEN 0 ELSE CHOOSE i \in hits : TRUE

isfile(abs_path) == DiskIndex(abs_path) # 0

\* The components of comps_a are the first components of comps_b.
CompsUnder(comps_a, comps_b) ==
    /\ Len(comps_a) < Len(comps_b)
    /\ \A i \in 1..Len(comps_a) : SameEntry(comps_a[i], comps_b[i])

isdir(abs_path) ==
    \E i \in 1..Len(DiskFiles) :
        CompsUnder(NonEmpty(split(abs_path)), NonEmpty(split(DiskFiles[i])))

\* os.walk(top): os.path.join(dirpath, file) of every file below top; dirpath
\* begins with top as it was given.
RECURSIVE WalkFrom(_, _)
WalkFrom(top, i) ==
    IF i > Len(DiskFiles) THEN <<>>
    ELSE LET tc == NonEmpty(split(top))
             fc == NonEmpty(split(DiskFiles[i]))
         IN IF CompsUnder(tc, fc)
            THEN <<join(top, sep_join(SubSeq(fc, Len(tc) + 1, Len(fc))))>>
                 \o WalkFrom(top, i + 1)
            ELSE WalkFrom(top, i + 1)

os_walk(top) == WalkFrom(top, 1)

\* os.stat(path).st_mtime_ns: each file's own time, one time for directories
st_mtime_ns(abs_path) == 100 + DiskIndex(abs_path)

-----------------------------------------------------------------------------
(* File, and the outcome of an operation *)

CACHE_KEY_INVALID == -1

\* File(system, path, data)
File(system, path, data) == [sys |-> system, path |-> path, data |-> data]

NoSys == [kind |-> "none"]
NoFile == [sys |-> NoSys, path |-> <<>>, data |-> <<>>]
IsFile(f) == f.sys.kind # "none"

\* What open_bin / open_str return: a stream over one stored content.
Stream(system, filename, content) ==
    [sys |-> system, path |-> filename, data |-> content]

\* An operation returned a value.
Returned(file, abs_path, member) ==
    [status |-> "ok", file |-> file, abs |-> abs_path, member |-> member,
     value |-> 0]

\* An operation raised an exception.
Raised(exc, abs_path) ==
    [status |-> exc, file |-> NoFile, abs |-> abs_path, member |-> 0,
     value |-> 0]

-----------------------------------------------------------------------------
(* dict: a sequence of entries with distinct keys, in insertion order *)

KeyIndex(d, key) ==
    LET hits == {i \in 1..Len(d) : d[i].key = key}
    IN IF hits = {} THEN 0 ELSE CHOOSE i \in hits : TRUE

\* d[key] = entry: a key already present keeps its place
DictSet(d, entry) ==
    LET i == KeyIndex(d, entry.key)
    IN IF i = 0 THEN Append(d, entry) ELSE [d EXCEPT ![i] = entry]

RECURSIVE DictOf(_)
DictOf(entries) ==
    IF Len(entries) = 0 THEN <<>>
    ELSE DictSet(DictOf(SubSeq(entries, 1, Len(entries) - 1)),
                 entries[Len(entries)])

-----------------------------------------------------------------------------
(* VirtualFileSystem *)

VirtualPath == <<"<", "v", ">">>

Virtual_clean_path(path) == casefold(replace_backslash(normpath(path)))

\* VirtualFileSystem(mapping, encoding); mapping is a sequence of
\* [filename, data] with distinct filenames.
VirtualFileSystem(mapping, encoding) ==
    [kind |-> "virtual", path |-> VirtualPath, constrain_path |-> FALSE,
     bytes_encoding |-> encoding,
     index |-> DictOf([i \in 1..Len(mapping) |->
                  [key |-> Virtual_clean_path(mapping[i].filename),
                   filename |-> mapping[i].filename,
                   dir |-> <<>>,
                   data |-> mapping[i].data]])]

\* filename, data = self._mapping[key], i being the key's place (0: KeyError)
Virtual_get_file_at(self, i) ==
    IF i = 0 THEN Raised("FileNotFoundError", <<>>)
    ELSE Returned(File(self, self.index[i].filename, self.index[i].filename),
                  <<>>, 0)

Virtual_get_file(self, name) ==
    Virtual_get_file_at(self, KeyIndex(self.index, Virtual_clean_path(name)))

Virtual_file_exists(self, name) ==
    KeyIndex(self.index, Virtual_clean_path(name)) # 0

\* open_bin / open_str: name is a str or a File
\* The stream over the entry at place i of the index (0: KeyError).
open_entry(self, i) ==
    IF i = 0 THEN Raised("FileNotFoundError", <<>>)
    ELSE Returned(Stream(self, self.index[i].filename, self.index[i].data), <<>>, 0)

Virtual_open(self, name, isFileArg) ==
    open_entry(self, KeyIndex(self.index,
                   Virtual_clean_path(IF isFileArg THEN name.path ELSE name)))

-----------------------------------------------------------------------------
(* RawFileSystem *)

RawFileSystem(path, constrain_path) ==
    [kind |-> "raw", path |-> abspath(path), constrain_path |-> constrain_path,
     bytes_encoding |-> "", index |-> <<>>]

\* The check of _resolve_path on abs_path.
Raw_constrain(self, abs_path) ==
    IF self.constrain_path /\ ~startswith(abs_path, self.path)
    THEN Raised("ValueError", abs_path)
    ELSE Returned(NoFile, abs_path, 0)

Raw_resolve_path(self, path) == Raw_constrain(self, abspath(join(self.path, path)))

\* _get_file, r being what self._resolve_path(name) gave
Raw_get_file_at(self, name, r) ==
    IF r.status # "ok" THEN r
    ELSE IF isfile(r.abs)
    THEN Returned(File(self, replace_backslash(name), replace_backslash(name)),
                  r.abs, 0)
    ELSE Raised("FileNotFoundError", r.abs)

Raw_get_file(self, name) == Raw_get_file_at(self, name, Raw_resolve_path(self, name))

Raw_file_exists_at(r) ==
    IF r.status # "ok" THEN r
    ELSE [r EXCEPT !.status = IF isfile(r.abs) THEN "True" ELSE "False"]

Raw_file_exists(self, name) == Raw_file_exists_at(Raw_resolve_path(self, name))

\* open(path), the file's place on disk being idx (0: no such file)
Raw_open_at(self, r, idx) ==
    IF r.status # "ok" THEN r
    ELSE IF idx # 0 THEN Returned(Stream(self, DiskFiles[idx], idx), r.abs, 0)
    ELSE IF isdir(r.abs) THEN Raised("IsADirectoryError", r.abs)
    ELSE Raised("FileNotFoundError", r.abs)

Raw_open_resolved(self, r) == Raw_open_at(self, r, DiskIndex(r.abs))

\* open(self._resolve_path(name)): name is a str or a File
Raw_open(self, name, isFileArg) ==
    Raw_open_resolved(self,
        Raw_resolve_path(self, IF isFileArg THEN name.data ELSE name))

Raw_get_cache_key_at(r) ==
    IF r.status # "ok" THEN r
    ELSE [r EXCEPT !.value =
             IF isfile(r.abs) \/ isdir(r.abs) THEN st_mtime_ns(r.abs)
             ELSE CACHE_KEY_INVALID]

Raw_get_cache_key(self, file) == Raw_get_cache_key_at(Raw_resolve_path(self, file.path))

-----------------------------------------------------------------------------
(* ZipFileSystem *)

\* ZipFileSystem(path, zipfile); infolist is zipfile.infolist(), a sequence
\* of [filename, CRC].
ZipFileSystem(path, infolist) ==
    LET files == SelectSeq(infolist, LAMBDA info : ~endswith(info.filename, <<"/">>))
    IN [kind |-> "zip", path |-> path, constrain_path |-> FALSE,
        bytes_encoding |-> "",
        index |-> DictOf([i \in 1..Len(files) |->
                     [key |-> casefold(files[i].filename),
                      filename |-> files[i].filename,
                      dir |-> <<>>,
                      data |-> files[i].CRC]])]

\* info = self._name_to_info[key], i being the key's place (0: KeyError)
Zip_get_file_at(self, name, i) ==
    IF i = 0 THEN Raised("FileNotFoundError", <<>>)
    ELSE Returned(File(self, name, self.index[i]), <<>>, 0)

Zip_get_file(self, name) ==
    Zip_get_file_at(self, replace_backslash(name),
                    KeyIndex(self.index, casefold(replace_backslash(name))))

Zip_file_exists(self, name) ==
    KeyIndex(self.index, casefold(replace_backslash(name))) # 0

Zip_open(self, name, isFileArg) ==
    IF isFileArg THEN Returned(Stream(self, name.data.filename, name.data.data), <<>>, 0)
    ELSE open_entry(self, KeyIndex(self.index, casefold(replace_backslash(name))))

-----------------------------------------------------------------------------
(* VPKFileSystem *)

\* VPKFileSystem(path); files is what iterating VPK(path) gives, a sequence
\* of [filename, dir, crc].
VPKFileSystem(path, files) ==
    [kind |-> "vpk", path |-> path, constrain_path |-> FALSE,
     bytes_encoding |-> "",
     index |-> DictOf([i \in 1..Len(files) |->
                  [key |-> casefold(replace_backslash(files[i].filename)),
                   filename |-> files[i].filename,
                   dir |-> files[i].dir,
                   data |-> files[i].crc]])]

\* file = self._name_to_file[key], i being the key's place (0: KeyError)
VPK_get_file_at(self, key, i) ==
    IF i = 0 THEN Raised("FileNotFoundError", <<>>)
    ELSE Returned(File(self, key, self.index[i]), <<>>, 0)

VPK_get_file_keyed(self, key) == VPK_get_file_at(self, key, KeyIndex(self.index, key))

VPK_get_file(self, name) == VPK_get_file_keyed(self, replace_backslash(casefold(name)))

VPK_file_exists(self, name) ==
    KeyIndex(self.index, replace_backslash(casefold(name))) # 0

VPK_open(self, name, isFileArg) ==
    IF isFileArg THEN Returned(Stream(self, name.data.filename, name.data.data), <<>>, 0)
    ELSE open_entry(self, KeyIndex(self.index, replace_backslash(casefold(name))))

-----------------------------------------------------------------------------
(* walk_folder of the backends: the Files one call yields, in order *)

Listed(files, abs_path) == [status |-> "ok", files |-> files, abs |-> abs_path]
ListingRaised(exc, abs_path) == [status |-> exc, files |-> <<>>, abs |-> abs_path]

Virtual_walk_folder(self, folder) ==
    LET cleaned == Virtual_clean_path(folder)
        hits == SelectSeq(self.index, LAMBDA e : startswith(e.filename, cleaned))
    IN Listed([i \in 1..Len(hits) |-> File(self, hits[i].filename, hits[i].filename)],
              <<>>)

Zip_walk_folder(self, folder) ==
    LET folded == casefold(replace_backslash(folder))
        hits == SelectSeq(self.index, LAMBDA e : startswith(e.key, folded))
    IN Listed([i \in 1..Len(hits) |-> File(self, hits[i].filename, hits[i])], <<>>)

VPK_walk_folder(self, folder) ==
    LET slashed == replace_backslash(folder)
        hits == SelectSeq(self.index, LAMBDA e : startswith(e.dir, slashed))
    IN Listed([i \in 1..Len(hits) |-> File(self, hits[i].filename, hits[i])], <<>>)

\* rel_path = os.path.relpath(os.path.join(dirpath, file), self.path)
\*                .replace('\\', '/'); yield File(self, rel_path, rel_path)
Raw_walked_file(self, rel_path) == File(self, rel_path, rel_path)

Raw_walked(self, r, found) ==
    Listed([i \in 1..Len(found) |->
               Raw_walked_file(self, replace_backslash(relpath(found[i], self.path)))],
           r.abs)

Raw_walk_folder_at(self, r) ==
    IF r.status # "ok" THEN ListingRaised(r.status, r.abs)
    ELSE Raw_walked(self, r, os_walk(r.abs))

Raw_walk_folder(self, folder) == Raw_walk_folder_at(self, Raw_resolve_path(self, folder))

-----------------------------------------------------------------------------
(* Dispatch of sys._get_file / sys._file_exists / sys.open_bin on a member *)

Member_get_file(sys, name) ==
    CASE sys.kind = "virtual" -> Virtual_get_file(sys, name)
      [] sys.kind = "raw" -> Raw_get_file(sys, name)
      [] sys.kind = "zip" -> Zip_get_file(sys, name)
      [] sys.kind = "vpk" -> VPK_get_file(sys, name)

Member_walk_folder(sys, folder) ==
    CASE sys.kind = "virtual" -> Virtual_walk_folder(sys, folder)
      [] sys.kind = "raw" -> Raw_walk_folder(sys, folder)
      [] sys.kind = "zip" -> Zip_walk_folder(sys, folder)
      [] sys.kind = "vpk" -> VPK_walk_folder(sys, folder)

\* File.open_bin() / File.open_str() of a member's File: self.sys.open_bin(self)
Member_open_file(file) ==
    CASE file.sys.kind = "virtual" -> Virtual_open(file.sys, file, TRUE)
      [] file.sys.kind = "raw" -> Raw_open(file.sys, file, TRUE)
      [] file.sys.kind = "zip" -> Zip_open(file.sys, file, TRUE)
      [] file.sys.kind = "vpk" -> VPK_open(file.sys, file, TRUE)

-----------------------------------------------------------------------------
(* FileSystemChain *)

\* The chain object, as File.sys and as isinstance see it.
ChainSelf ==
    [kind |-> "chain", path |-> <<>>, constrain_path |-> FALSE,
     bytes_encoding |-> "", index |-> <<>>]

\* add_sys(sys, prefix, priority=...) on the list self.systems
add_sys_append(self_systems, sys, prefix, priority) ==
    Append(self_systems, [sys |-> sys, prefix |-> prefix])

add_sys(self_systems, sys, prefix, priority) ==
    IF priority
    THEN <<[sys |-> sys, prefix |-> prefix]>> \o self_systems
    ELSE Append(self_systems, [sys |-> sys, prefix |-> prefix])

\* FileSystemChain(*systems): each argument is a (sys, prefix) tuple or a
\* bare sys, added in order without priority.
RECURSIVE Chain_init(_)
Chain_init(args) ==
    IF Len(args) = 0 THEN <<>>
    ELSE LET arg == args[Len(args)]
             before == Chain_init(SubSeq(args, 1, Len(args) - 1))
         IN IF arg.isTuple
            THEN add_sys(before, arg.sys, arg.prefix, FALSE)
            ELSE add_sys(before, arg.sys, <<>>, FALSE)

\* The loop of FileSystemChain._get_file from member i on.
RECURSIVE Chain_get_file_from(_, _, _)

\* The body of the loop, member i having answered file_info for full_name.
Chain_get_file_answered(self_systems, name, i, full_name, file_info) ==
    IF file_info.status = "FileNotFoundError"
    THEN Chain_get_file_from(self_systems, name, i + 1)
    ELSE IF file_info.status # "ok" THEN file_info
    ELSE Returned(File(ChainSelf, full_name, file_info.file), file_info.abs, i)

\* full_name = os.path.join(prefix, name).replace('\\', '/')
Chain_get_file_named(self_systems, name, i, full_name) ==
    Chain_get_file_answered(self_systems, name, i, full_name,
                            Member_get_file(self_systems[i].sys, full_name))

Chain_get_file_from(self_systems, name, i) ==
    IF i > Len(self_systems) THEN Raised("FileNotFoundError", <<>>)
    ELSE Chain_get_file_named(self_systems, name, i,
             replace_backslash(join(self_systems[i].prefix, name)))

\* A lookup that searches the members from the last to the first.
RECURSIVE Chain_get_file_last_from(_, _, _)

Chain_get_file_last_answered(self_systems, name, i, full_name, file_info) ==
    IF file_info.status = "FileNotFoundError"
    THEN Chain_get_file_last_from(self_systems, name, i - 1)
    ELSE IF file_info.status # "ok" THEN file_info
    ELSE Returned(File(ChainSelf, full_name, file_info.file), file_info.abs, i)

Chain_get_file_last_named(self_systems, name, i, full_name) ==
    Chain_get_file_last_answered(self_systems, name, i, full_name,
                                 Member_get_file(self_systems[i].sys, full_name))

Chain_get_file_last_from(self_systems, name, i) ==
    IF i < 1 THEN Raised("FileNotFoundError", <<>>)
    ELSE Chain_get_file_last_named(self_systems, name, i,
             replace_backslash(join(self_systems[i].prefix, name)))

Chain_get_file_last(self_systems, name) ==
    Chain_get_file_last_from(self_systems, name, Len(self_systems))

Chain_get_file(self_systems, name) == Chain_get_file_from(self_systems, name, 1)

\* FileSystemChain(...) as an object that is compared or looked up in.
ChainObject(members) ==
    [kind |-> "chain", path |-> <<>>, constrain_path |-> FALSE,
     bytes_encoding |-> "", index |-> <<>>, systems |-> members]

\* FileSystem._file_exists, which FileSystemChain inherits
\* try: self._get_file(name); return True; except FileNotFoundError: return False
exists_from(r) ==
    IF r.status = "ok" THEN [r EXCEPT !.status = "True", !.file = NoFile]
    ELSE IF r.status = "FileNotFoundError" THEN [r EXCEPT !.status = "False"]
    ELSE r

Chain_file_exists(self_systems, name) == exists_from(Chain_get_file(self_systems, name))

\* FileSystemChain.open_bin / open_str: name is a str or a File of the chain
\* self._get_file(name).open_bin(), r being what self._get_file(name) gave
open_looked_up(r) == IF r.status # "ok" THEN r ELSE Member_open_file(r.file.data)

\* An open that looks the File's path up again.
Chain_open_searching(self_systems, name, isFileArg) ==
    open_looked_up(Chain_get_file(self_systems,
                                  IF isFileArg THEN name.path ELSE name))

Chain_open(self_systems, name, isFileArg) ==
    IF isFileArg THEN Member_open_file(name.data)
    ELSE open_looked_up(Chain_get_file(self_systems, name))

-----------------------------------------------------------------------------
(* The operations of the FileSystem contract, on any filesystem object *)

Truth(b, abs_path) ==
    [status |-> IF b THEN "True" ELSE "False", file |-> NoFile,
     abs |-> abs_path, member |-> 0, value |-> 0]

\* fs[name]
FS_get_file(fs, name) ==
    IF fs.kind = "chain" THEN Chain_get_file(fs.systems, name)
    ELSE Member_get_file(fs, name)

\* name in fs
FS_file_exists(fs, name) ==
    CASE fs.kind = "chain" -> Chain_file_exists(fs.systems, name)
      [] fs.kind = "raw" -> Raw_file_exists(fs, name)
      [] fs.kind = "virtual" -> Truth(Virtual_file_exists(fs, name), <<>>)
      [] fs.kind = "zip" -> Truth(Zip_file_exists(fs, name), <<>>)
      [] fs.kind = "vpk" -> Truth(VPK_file_exists(fs, name), <<>>)

\* fs.open_bin(name) / fs.open_str(name)
FS_open(fs, name, isFileArg) ==
    CASE fs.kind = "chain" -> Chain_open(fs.systems, name, isFileArg)
      [] fs.kind = "raw" -> Raw_open(fs, name, isFileArg)
      [] fs.kind = "virtual" -> Virtual_open(fs, name, isFileArg)
      [] fs.kind = "zip" -> Zip_open(fs, name, isFileArg)
      [] fs.kind = "vpk" -> VPK_open(fs, name, isFileArg)

-----------------------------------------------------------------------------
(* The generators FileSystemChain.walk_folder and walk_folder_repeat *)

\* A generator object just created: no code of its body has run.
NewGenerator(kind, folder) ==
    [kind |-> kind, folder |-> folder, status |-> "suspended",
     i |-> 0,            \* items the iterator of self.systems has given
     prefix |-> <<>>,    \* prefix of the member being listed
     cur |-> <<>>,       \* what that member's walk_folder yields
     j |-> 0,            \* how many of them were taken
     done |-> {},        \* walk_folder's set of visited paths
     out |-> <<>>]       \* history: the Files yielded, with their member

\* The item the iterator of self.systems gives at its i-th step.
systems_item_reversed(self_systems, i) == self_systems[Len(self_systems) + 1 - i]

systems_item(self_systems, i) == self_systems[i]

\* One next() of walk_folder_repeat: runs to the next yield, to the end of
\* the list, or to an exception.
RECURSIVE walk_folder_repeat_next(_, _)

\* yield File(self, os.path.relpath(file.path, prefix).replace('\\', '/'), file)
repeat_yield(g, file) ==
    IF Len(file.path) = 0
    THEN [gen |-> [g EXCEPT !.status = "ValueError"], file |-> NoFile]
    ELSE [gen |-> [g EXCEPT !.j = g.j + 1],
          file |-> File(ChainSelf,
                        replace_backslash(relpath(file.path, g.prefix)), file)]

\* The inner loop begins on the member's listing, or the listing raises.
repeat_listed(g, member, listing, self_systems) ==
    IF listing.status # "ok"
    THEN [gen |-> [g EXCEPT !.status = listing.status, !.i = g.i + 1],
          file |-> NoFile]
    ELSE walk_folder_repeat_next(
             [g EXCEPT !.i = g.i + 1, !.prefix = member.prefix,
                       !.cur = listing.files, !.j = 0],
             self_systems)

\* The outer loop takes the next member.
repeat_member(g, member, self_systems) ==
    repeat_listed(g, member,
        Member_walk_folder(member.sys,
                           replace_backslash(join(member.prefix, g.folder))),
        self_systems)

walk_folder_repeat_next(g, self_systems) ==
    IF g.j < Len(g.cur) THEN repeat_yield(g, g.cur[g.j + 1])
    ELSE IF g.i < Len(self_systems)
    THEN repeat_member(g, systems_item(self_systems, g.i + 1), self_systems)
    ELSE [gen |-> [g EXCEPT !.status = "StopIteration"], file |-> NoFile]

\* The key walk_folder remembers a yielded File by.
folded_exact(file) == file.path

folded(file) == casefold(file.path)

\* One next() of walk_folder.
RECURSIVE walk_folder_next(_, _)

\* What walk_folder does with r, the outcome of one step of its loop over
\* walk_folder_repeat.
walk_folder_filter(r, self_systems) ==
    IF ~IsFile(r.file) THEN r
    ELSE IF folded(r.file) \in r.gen.done
    THEN walk_folder_next(r.gen, self_systems)
    ELSE [r EXCEPT !.gen.done = r.gen.done \cup {folded(r.file)}]

walk_folder_next(g, self_systems) ==
    walk_folder_filter(walk_folder_repeat_next(g, self_systems), self_systems)

\* The yielded File is recorded in the generator's history.
record_yield(r) ==
    IF IsFile(r.file)
    THEN [r.gen EXCEPT !.out = Append(r.gen.out,
                                   [file |-> r.file, member |-> r.gen.i])]
    ELSE r.gen

\* next(g) on either generator
generator_next(g, self_systems) ==
    IF g.kind = "walk_folder"
    THEN record_yield(walk_folder_next(g, self_systems))
    ELSE record_yield(walk_folder_repeat_next(g, self_systems))

\* list(g): next() until the generator ends
RECURSIVE drain(_, _)
drain(g, self_systems) ==
    IF g.status # "suspended" THEN g
    ELSE drain(generator_next(g, self_systems), self_systems)

\* What list(g) gave, or the exception that ended it.
drained(g) ==
    IF g.status = "StopIteration"
    THEN Listed([i \in 1..Len(g.out) |-> g.out[i].file], <<>>)
    ELSE ListingRaised(g.status, <<>>)

\* list(fs.walk_folder(folder))
FS_walk_folder(fs, folder) ==
    IF fs.kind = "chain"
    THEN drained(drain(NewGenerator("walk_folder", folder), fs.systems))
    ELSE Member_walk_folder(fs, folder)

-----------------------------------------------------------------------------
(* __eq__ *)

\* FileSystem.__eq__ comparing the paths as they were given.
FileSystem_eq_unnormalized(self, other_fs) ==
    IF other_fs.kind # self.kind THEN "NotImplemented"
    ELSE IF self.path = other_fs.path THEN "True" ELSE "False"

\* FileSystem.__eq__(self, other): isinstance(other, type(self)) holds exactly
\* when the classes are the same, no backend class deriving from another.
FileSystem_eq(self, other_fs) ==
    IF other_fs.kind # self.kind THEN "NotImplemented"
    ELSE IF normpath(self.path) = normpath(other_fs.path) THEN "True" ELSE "False"

\* dict == dict: the same keys with equal values, in any order
DictEq(d1, d2) == {d1[i] : i \in 1..Len(d1)} = {d2[i] : i \in 1..Len(d2)}

Virtual_eq(self, other_fs) ==
    IF other_fs.kind # "virtual" THEN "NotImplemented"
    ELSE IF self.bytes_encoding = other_fs.bytes_encoding
            /\ DictEq(self.index, other_fs.index)
    THEN "True" ELSE "False"

\* a == b in Python: a.__eq__(b), then the reflected b.__eq__(a), then
\* identity, which two objects of different classes never have.
RECURSIVE python_eq(_, _)

\* list == list of (sys, prefix) tuples
systems_eq(l1, l2) ==
    /\ Len(l1) = Len(l2)
    /\ \A i \in 1..Len(l1) :
        python_eq(l1[i].sys, l2[i].sys) /\ l1[i].prefix = l2[i].prefix

Chain_eq(self, other_fs) ==
    IF other_fs.kind # "chain" THEN "NotImplemented"
    ELSE IF systems_eq(self.systems, other_fs.systems) THEN "True" ELSE "False"

eq_method(self, other_fs) ==
    CASE self.kind = "virtual" -> Virtual_eq(self, other_fs)
      [] self.kind = "chain" -> Chain_eq(self, other_fs)
      [] OTHER -> FileSystem_eq(self, other_fs)

python_eq(a, b) ==
    IF eq_method(a, b) # "NotImplemented" THEN eq_method(a, b) = "True"
    ELSE IF eq_method(b, a) # "NotImplemented" THEN eq_method(b, a) = "True"
    ELSE FALSE

-----------------------------------------------------------------------------
(* The objects and inputs the operations are applied to *)

P_empty == <<>>
P_x == <<"x">>
P_X == <<"X">>
P_o == <<"o">>
P_d == <<"d">>
P_dslash == <<"d", "/">>
P_dx == <<"d", "/", "x">>
P_DX == <<"D", "/", "X">>
P_d_x == <<"d", "\\", "x">>
P_dxx == <<"d", "x">>
P_up_o == <<".", ".", "/", "o">>
P_up_r2x == <<".", ".", "/", "r", "2", "/", "x">>
P_root == <<"/", "r">>
P_azip == <<"a", ".", "z", "i", "p">>
P_bzip == <<"b", ".", "z", "i", "p">>

\* a.zip: x, d/ (a directory marker), d/x
ZipA ==
    ZipFileSystem(P_azip,
        << [filename |-> P_x, CRC |-> 11],
           [filename |-> P_dslash, CRC |-> 0],
           [filename |-> P_dx, CRC |-> 12] >>)

\* b.zip: X, d/x, dx
ZipB ==
    ZipFileSystem(P_bzip,
        << [filename |-> P_X, CRC |-> 21],
           [filename |-> P_dx, CRC |-> 22],
           [filename |-> P_dxx, CRC |-> 23] >>)

\* {'d/x': ..., 'dx': ..., 'o': ...}
VirtA ==
    VirtualFileSystem(
        << [filename |-> P_dx, data |-> 31],
           [filename |-> P_dxx, data |-> 32],
           [filename |-> P_o, data |-> 33] >>, "utf8")

\* RawFileSystem('/r'), constrained
RawA == RawFileSystem(P_root, TRUE)

\* The (sys, prefix) pairs add_sys and the constructor are called with.
MemberChoices ==
    { [sys |-> ZipA, prefix |-> P_empty],
      [sys |-> ZipB, prefix |-> P_empty],
      [sys |-> ZipB, prefix |-> P_dslash],
      [sys |-> VirtA, prefix |-> P_d],
      [sys |-> RawA, prefix |-> P_empty] }

\* The paths looked up through the chain.
LookupNames == {P_x, P_X, P_dx, P_d_x, P_o, P_up_o}

\* The most members a chain gets, and the most the constructor is given.
MaxSystems == 3
MaxCtorArgs == 1

CtorArgs ==
    {[sys |-> m.sys, prefix |-> m.prefix, isTuple |-> TRUE] : m \in MemberChoices}
    \cup {[sys |-> m.sys, prefix |-> P_empty, isTuple |-> FALSE] : m \in MemberChoices}

CtorArgLists == UNION {[1..n -> CtorArgs] : n \in 0..MaxCtorArgs}

\* The add_sys calls FileSystemChain(*args) makes.
CtorCalls(args) ==
    [i \in 1..Len(args) |->
        [sys |-> args[i].sys,
         prefix |-> IF args[i].isTuple THEN args[i].prefix ELSE P_empty,
         priority |-> FALSE]]

NoResult == [op |-> "none"]

\* The Output objects of the map, by identity: the output field of each.
OutputObjects == << <<"O", "x">>, <<"o", "x">>, <<"d">> >>

-----------------------------------------------------------------------------
(* The chain: construction, add_sys, lookup *)

InitChain ==
    /\ hostFoldsCase \in BOOLEAN
    /\ io_remaps = <<>>
    /\ outputs = OutputObjects
    /\ \E args \in CtorArgLists :
        /\ systems = Chain_init(args)
        /\ calls = CtorCalls(args)
    /\ fsys = ChainSelf
    /\ other = ChainSelf
    /\ held = NoFile
    /\ result = NoResult
    /\ iters = <<>>

\* chain.add_sys(sys, prefix, priority=priority)
AddSys ==
    /\ Len(systems) < MaxSystems
    /\ \E m \in MemberChoices, priority \in BOOLEAN :
        /\ systems' = add_sys(systems, m.sys, m.prefix, priority)
        /\ calls' = Append(calls, [sys |-> m.sys, prefix |-> m.prefix,
                                   priority |-> priority])
    /\ result' = [op |-> "add_sys"]
    /\ UNCHANGED <<io_remaps, outputs, hostFoldsCase, fsys, other, held, iters>>

\* chain[name]
ChainLookup ==
    /\ \E name \in LookupNames :
        result' = [op |-> "lookup", name |-> name,
                   r |-> Chain_get_file(systems, name)]
    /\ UNCHANGED <<io_remaps, outputs, hostFoldsCase, systems, calls, fsys, other, held, iters>>

NextChain == AddSys \/ ChainLookup

SpecChain == InitChain /\ [][NextChain]_vars

-----------------------------------------------------------------------------
(* Chain lookup: first match in member order *)

\* What member i of the chain answers to the chain's lookup of name.
MemberAnswer(i, name) ==
    Member_get_file(systems[i].sys,
                    replace_backslash(join(systems[i].prefix, name)))

\* The members that resolve name, and those that fail other than by NotFound.
Resolving(name) ==
    {i \in 1..Len(systems) : MemberAnswer(i, name).status = "ok"}
Failing(name) ==
    {i \in 1..Len(systems) :
        MemberAnswer(i, name).status \notin {"ok", "FileNotFoundError"}}

Lowest(S) == CHOOSE i \in S : \A j \in S : i <= j

\* C1 as stated: the chain's lookup returns a File whose inner File is the one
\* of the lowest-index member that resolves the joined path, and it fails with
\* NotFound if and only if no member resolves it.
C1_FirstMatchOrNotFound ==
    result.op = "lookup" =>
        LET R == Resolving(result.name) IN
        /\ (R = {}) <=> (result.r.status = "FileNotFoundError")
        /\ R # {} =>
            /\ result.r.status = "ok"
            /\ result.r.member = Lowest(R)
            /\ result.r.file.data = MemberAnswer(Lowest(R), result.name).file

\* C1 amended: the first member, in list order, that does not answer NotFound
\* decides the lookup. If it resolves the joined path, the chain returns a
\* File wrapping that member's File; if it raises another error (the
\* ValueError of a constrained RawFileSystem), the chain raises that error;
\* the chain fails with NotFound if and only if every member answers NotFound.
C1_FirstMatch ==
    result.op = "lookup" =>
        LET D == Resolving(result.name) \cup Failing(result.name) IN
        /\ (D = {}) <=> (result.r.status = "FileNotFoundError")
        /\ D # {} =>
            LET k == Lowest(D) IN
            /\ result.r.status = MemberAnswer(k, result.name).status
            /\ result.r.status = "ok" =>
                /\ result.r.member = k
                /\ result.r.file.sys = ChainSelf
                /\ result.r.file.data = MemberAnswer(k, result.name).file

\* A lookup decided by the second member, after the first answered NotFound,
\* with a third member that would have resolved the path too.
C1_Witness ==
    /\ result.op = "lookup"
    /\ result.r.status = "ok"
    /\ result.r.member = 2
    /\ 3 \in Resolving(result.name)
    /\ result.r.file.data.sys # systems[3].sys

-----------------------------------------------------------------------------
(* Chain lookup: prefix scoping *)

\* The member's backend stores a file at full_name (ignoring case).
MemberHolds(m, full_name) ==
    \/ \E i \in 1..Len(m.sys.index) :
          casefold(m.sys.index[i].filename) = casefold(full_name)
    \/ m.sys.kind = "raw" /\ isfile(abspath(join(m.sys.path, full_name)))

\* full_name lies beneath the folder prefix.
Beneath(full_name, prefix) ==
    LET pc == NonEmpty(split(casefold(prefix)))
        fc == NonEmpty(split(casefold(replace_backslash(full_name))))
    IN Len(pc) < Len(fc) /\ SubSeq(fc, 1, Len(pc)) = pc

\* C4 (lookup): when a member with a non-empty prefix P holds P/x, the chain's
\* lookup of x succeeds; a File the lookup returns through a member with
\* prefix P has the path x that was asked for, not P/x, and wraps a File of
\* the member that lies beneath P.
C4_PrefixStripped ==
    result.op = "lookup" =>
        /\ \A i \in 1..Len(systems) :
            (/\ systems[i].prefix # P_empty
             /\ MemberHolds(systems[i], join(systems[i].prefix,
                                             replace_backslash(result.name))))
            => result.r.status = "ok"
        /\ (result.r.status = "ok" /\ systems[result.r.member].prefix # P_empty) =>
            /\ result.r.file.path = replace_backslash(result.name)
            /\ Beneath(result.r.file.data.path, systems[result.r.member].prefix)

-----------------------------------------------------------------------------
(* add_sys: the order of the member list *)

RECURSIVE Reverse(_)
Reverse(s) == IF Len(s) = 0 THEN <<>> ELSE Append(Reverse(Tail(s)), Head(s))

AsMember(call) == [sys |-> call.sys, prefix |-> call.prefix]
AsMembers(cs) == [i \in 1..Len(cs) |-> AsMember(cs[i])]

\* C10: the member list is the members added with priority, latest first,
\* followed by the members added without priority in the order of their
\* calls, the constructor's included; so every call adds exactly one pair and
\* leaves the pairs already present in their order.
C10_MemberOrder ==
    systems = Reverse(AsMembers(SelectSeq(calls, LAMBDA c : c.priority)))
              \o AsMembers(SelectSeq(calls, LAMBDA c : ~c.priority))

\* Two priority additions of different members around a normal one.
C10_Witness ==
    /\ Len(calls) = 3
    /\ calls[1].priority /\ ~calls[2].priority /\ calls[3].priority
    /\ AsMember(calls[1]) # AsMember(calls[3])
    /\ result.op = "add_sys"

-----------------------------------------------------------------------------
(* Traversals of a chain *)

\* The folders listed, the generators alive at once, and the members of the
\* chains that are traversed.
WalkFolders == {P_empty, P_d, dotdot}
MaxGenerators == 2
MaxWalkMembers == 2

WalkArgLists ==
    UNION {[1..n -> {a \in CtorArgs : a.isTuple}] : n \in 0..MaxWalkMembers}

\* Members are added before the chain is first used: the chains traversed
\* are those the constructor builds.
InitWalk ==
    /\ hostFoldsCase \in BOOLEAN
    /\ io_remaps = <<>>
    /\ outputs = OutputObjects
    /\ \E args \in WalkArgLists :
        /\ systems = Chain_init(args)
        /\ calls = CtorCalls(args)
    /\ fsys = ChainSelf
    /\ other = ChainSelf
    /\ held = NoFile
    /\ result = NoResult
    /\ iters = <<>>

\* g = chain.walk_folder(folder) or chain.walk_folder_repeat(folder)
StartWalk ==
    /\ Len(iters) < MaxGenerators
    /\ \E kind \in {"walk_folder", "walk_folder_repeat"}, folder \in WalkFolders :
        iters' = Append(iters, NewGenerator(kind, folder))
    /\ UNCHANGED <<io_remaps, outputs, hostFoldsCase, systems, calls, fsys, other, held, result>>

\* next(g) on a generator that has not ended
StepWalk ==
    /\ \E k \in 1..Len(iters) :
        /\ iters[k].status = "suspended"
        /\ iters' = [iters EXCEPT ![k] = generator_next(iters[k], systems)]
    /\ UNCHANGED <<io_remaps, outputs, hostFoldsCase, systems, calls, fsys, other, held, result>>

NextWalk == StartWalk \/ StepWalk

SpecWalk == InitWalk /\ [][NextWalk]_vars

-----------------------------------------------------------------------------
(* What the traversals must yield *)

\* What member m contributes to a listing of folder: its own walk_folder of
\* the prefix joined with the folder, each path taken relative to the prefix.
Contribution(m, folder) ==
    LET member == systems[m]
        listing == Member_walk_folder(member.sys,
                       replace_backslash(join(member.prefix, folder)))
    IN [status |-> listing.status,
        items |-> [n \in 1..Len(listing.files) |->
            [file |-> File(ChainSelf,
                           replace_backslash(relpath(listing.files[n].path,
                                                     member.prefix)),
                           listing.files[n]),
             member |-> m]]]

\* The members before the first whose listing raises (all, if none raises).
Listable(folder) ==
    {m \in 1..Len(systems) :
        \A n \in 1..m : Contribution(n, folder).status = "ok"}

\* Everything walk_folder_repeat(folder) yields, from member m on.
RECURSIVE RepeatFrom(_, _)
RepeatFrom(m, folder) ==
    IF m \notin Listable(folder) THEN <<>>
    ELSE Contribution(m, folder).items \o RepeatFrom(m + 1, folder)

IsPrefixOf(a, b) == Len(a) <= Len(b) /\ a = SubSeq(b, 1, Len(a))

\* The items of seq whose member is m.
OfMember(seq, m) == SelectSeq(seq, LAMBDA it : it.member = m)

\* C3: walk_folder_repeat yields member by member in list order, all Files
\* of one member before any of the next, and from each member exactly the
\* Files its own listing of prefix joined with folder yields, re-rooted; so
\* a path held by k members comes k times, the first time from the member
\* of highest priority.
C3_RepeatOrder ==
    \A k \in 1..Len(iters) :
        LET g == iters[k] IN
        g.kind = "walk_folder_repeat" =>
            /\ \A a, b \in 1..Len(g.out) : a < b => g.out[a].member <= g.out[b].member
            /\ \A m \in 1..Len(systems) :
                LET got == OfMember(g.out, m)
                    want == Contribution(m, g.folder).items
                IN /\ IsPrefixOf(got, want)
                   /\ got # <<>> => m \in Listable(g.folder)
                   /\ (m \in Listable(g.folder)
                       /\ (g.status # "suspended"
                           \/ \E a \in 1..Len(g.out) : g.out[a].member > m))
                      => got = want
            /\ g.status = "StopIteration" => Listable(g.folder) = 1..Len(systems)

\* A finished walk_folder_repeat in which two members each gave the same
\* path, first the member of higher priority.
C3_Witness ==
    \E k \in 1..Len(iters) :
        LET g == iters[k] IN
        /\ g.kind = "walk_folder_repeat"
        /\ g.status = "StopIteration"
        /\ \E a, b \in 1..Len(g.out) :
            /\ a < b
            /\ g.out[a].file.path = g.out[b].file.path
            /\ g.out[a].member = 1 /\ g.out[b].member = 2
            /\ g.out[a].file.data.sys # g.out[b].file.data.sys

\* The items of seq that no earlier item equals in case-folded path.
RECURSIVE FirstOccurrences(_, _)
FirstOccurrences(seq, n) ==
    IF n = 0 THEN <<>>
    ELSE LET before == FirstOccurrences(seq, n - 1) IN
         IF \E q \in 1..(n - 1) :
                casefold(seq[q].file.path) = casefold(seq[n].file.path)
         THEN before
         ELSE Append(before, seq[n])

\* C2: every call of walk_folder yields, of what walk_folder_repeat yields
\* for the folder, exactly the first File of each case-folded path, in that
\* order, and never two Files whose paths are equal ignoring case; whatever
\* other traversals of the chain were started or advanced meanwhile.
C2_Dedup ==
    \A k \in 1..Len(iters) :
        LET g == iters[k]
            all == RepeatFrom(1, g.folder)
            first == FirstOccurrences(all, Len(all))
        IN g.kind = "walk_folder" =>
            /\ \A a, b \in 1..Len(g.out) :
                a # b => casefold(g.out[a].file.path) # casefold(g.out[b].file.path)
            /\ IsPrefixOf(g.out, first)
            /\ g.status # "suspended" => g.out = first

\* A walk_folder that ran to its end and dropped a path differing only in
\* case, while an earlier walk_folder of the same folder was part-way through.
C2_Witness ==
    /\ Len(iters) = 2
    /\ iters[1].kind = "walk_folder" /\ iters[2].kind = "walk_folder"
    /\ iters[1].folder = iters[2].folder
    /\ iters[1].status = "suspended" /\ Len(iters[1].out) = 1
    /\ iters[2].status = "StopIteration" /\ Len(iters[2].out) >= 2
    /\ LET all == RepeatFrom(1, iters[2].folder) IN
        \E a, b \in 1..Len(all) :
            /\ a < b
            /\ all[a].file.path # all[b].file.path
            /\ casefold(all[a].file.path) = casefold(all[b].file.path)

-----------------------------------------------------------------------------
(* Operations on one filesystem object *)

P_upDX == <<"D", "/", "x">>
P_updown_o == <<"d", "/", ".", ".", "/", "o">>
P_cvpk == <<"c", ".", "v", "p", "k">>
P_dot_azip == <<".", "/", "a", ".", "z", "i", "p">>
P_root_d == <<"/", "r", "/", "d">>
P_root_d_up == <<"/", "r", "/", "d", "/", ".", ".">>

\* RawFileSystem('/r', constrain_path=False)
RawU == RawFileSystem(P_root, FALSE)

\* {'D/X': ..., 'x': ...}
VirtB ==
    VirtualFileSystem(
        << [filename |-> P_DX, data |-> 41],
           [filename |-> P_x, data |-> 42] >>, "utf8")

\* c.vpk: x, d/x
VpkA ==
    VPKFileSystem(P_cvpk,
        << [filename |-> P_x, dir |-> P_empty, crc |-> 51],
           [filename |-> P_dx, dir |-> P_d, crc |-> 52] >>)

ChainZZ ==
    ChainObject(<< [sys |-> ZipA, prefix |-> P_empty],
                   [sys |-> ZipB, prefix |-> P_dslash] >>)
ChainVR ==
    ChainObject(<< [sys |-> VirtA, prefix |-> P_d],
                   [sys |-> RawA, prefix |-> P_empty] >>)

\* The filesystem objects the operations are tried on.
TestSystems == {RawA, RawU, ZipA, ZipB, VpkA, VirtA, VirtB, ChainZZ, ChainVR}

\* The paths and folders given to them.
TestNames ==
    {P_empty, P_x, P_X, P_d, P_dx, P_DX, P_upDX, P_o, P_up_o, P_up_r2x, P_updown_o}

InitFS ==
    /\ hostFoldsCase \in BOOLEAN
    /\ io_remaps = <<>>
    /\ outputs = OutputObjects
    /\ systems = <<>>
    /\ calls = <<>>
    /\ fsys \in TestSystems
    /\ other = fsys
    /\ held = NoFile
    /\ result = NoResult
    /\ iters = <<>>

\* f = fsys[name]; the File is kept
FsLookup ==
    /\ \E name \in TestNames :
        /\ result' = [op |-> "lookup", name |-> name, r |-> FS_get_file(fsys, name)]
        /\ held' = IF result'.r.status = "ok" THEN result'.r.file ELSE held
    /\ UNCHANGED <<io_remaps, outputs, hostFoldsCase, systems, calls, fsys, other, iters>>

\* name in fsys
FsExists ==
    /\ \E name \in TestNames :
        result' = [op |-> "exists", name |-> name, r |-> FS_file_exists(fsys, name)]
    /\ UNCHANGED <<io_remaps, outputs, hostFoldsCase, systems, calls, fsys, other, held, iters>>

\* fsys.open_bin(name), fsys.open_str(name)
FsOpen ==
    /\ \E name \in TestNames :
        result' = [op |-> "open", name |-> name, r |-> FS_open(fsys, name, FALSE)]
    /\ UNCHANGED <<io_remaps, outputs, hostFoldsCase, systems, calls, fsys, other, held, iters>>

\* f.open_bin(), f.open_str() on a File obtained before
FsOpenFile ==
    /\ IsFile(held)
    /\ result' = [op |-> "open_file", name |-> held.path,
                  r |-> FS_open(fsys, held, TRUE)]
    /\ UNCHANGED <<io_remaps, outputs, hostFoldsCase, systems, calls, fsys, other, held, iters>>

\* f.cache_key() on a File of a RawFileSystem obtained before
FsCacheKey ==
    /\ IsFile(held)
    /\ fsys.kind = "raw"
    /\ result' = [op |-> "cache_key", name |-> held.path,
                  r |-> Raw_get_cache_key(fsys, held)]
    /\ UNCHANGED <<io_remaps, outputs, hostFoldsCase, systems, calls, fsys, other, held, iters>>

\* list(fsys.walk_folder(folder))
FsList ==
    /\ \E folder \in TestNames :
        result' = [op |-> "list", name |-> folder, r |-> FS_walk_folder(fsys, folder)]
    /\ UNCHANGED <<io_remaps, outputs, hostFoldsCase, systems, calls, fsys, other, held, iters>>

NextFS == FsLookup \/ FsExists \/ FsOpen \/ FsOpenFile \/ FsCacheKey \/ FsList

SpecFS == InitFS /\ [][NextFS]_vars

-----------------------------------------------------------------------------
(* RawFileSystem: the traversal constraint *)

\* abs_path is the directory root or lies beneath it.
WithinRoot(abs_path, root) ==
    LET rc == NonEmpty(split(root))
        ac == NonEmpty(split(abs_path))
    IN Len(rc) <= Len(ac) /\ SubSeq(ac, 1, Len(rc)) = rc

\* C5: on a RawFileSystem with the constraint enabled, every operation that
\* takes a path either fails with the PathEscape error (ValueError) or works
\* on an absolute path that is the root or lies beneath it.
C5_StaysWithinRoot ==
    (fsys.kind = "raw" /\ fsys.constrain_path /\ result.op # "none") =>
        \/ result.r.status = "ValueError"
        \/ WithinRoot(result.r.abs, fsys.path)

-----------------------------------------------------------------------------
(* Case and separators *)

\* The stored thing a File of a backend stands for: a disk file, a mapping
\* entry or an archive entry, each named by its place.
LeafUnderlying(file) ==
    [sys |-> file.sys,
     id |-> CASE file.sys.kind = "raw" ->
                   DiskIndex(abspath(join(file.sys.path, file.data)))
              [] file.sys.kind = "virtual" ->
                   KeyIndex(file.sys.index, Virtual_clean_path(file.data))
              [] OTHER -> KeyIndex(file.sys.index, file.data.key)]

Underlying(file) ==
    IF file.sys.kind = "chain" THEN LeafUnderlying(file.data)
    ELSE LeafUnderlying(file)

\* Two outcomes of an operation are the same failure, or the same answer
\* about the same stored file.
SameOutcome(op, r1, r2) ==
    /\ r1.status = r2.status
    /\ r1.status = "ok" =>
        IF op = "lookup" THEN Underlying(r1.file) = Underlying(r2.file)
        ELSE r1.file = r2.file

\* C6: lookup of a path, of the path upper-cased and of the path lower-cased
\* either all fail the same way or all resolve to the same stored file, in
\* every backend.
C6_CaseInsensitive ==
    result.op = "lookup" =>
        /\ SameOutcome("lookup", result.r, FS_get_file(fsys, upper(result.name)))
        /\ SameOutcome("lookup", result.r, FS_get_file(fsys, lower(result.name)))

\* The path written with backslash separators.
Backslashed(name) == [i \in 1..Len(name) |-> IF name[i] = "/" THEN "\\" ELSE name[i]]

\* The operation op of fs applied to the path name.
Apply(op, fs, name) ==
    CASE op = "lookup" -> FS_get_file(fs, name)
      [] op = "exists" -> FS_file_exists(fs, name)
      [] op = "open" -> FS_open(fs, name, FALSE)

\* C7: lookup, exists and open of a path written with backslashes give the
\* same outcome as for the path written with forward slashes, in every
\* backend.
C7_SeparatorsAgree ==
    result.op \in {"lookup", "exists", "open"} =>
        SameOutcome(result.op, result.r,
                    Apply(result.op, fsys, Backslashed(result.name)))

-----------------------------------------------------------------------------
(* VirtualFileSystem: listing *)

\* C8: listing a folder of a VirtualFileSystem yields exactly the entries of
\* the mapping whose case-folded path starts with the case-folded folder,
\* each once; listing the root yields every entry.
C8_VirtualListing ==
    (result.op = "list" /\ fsys.kind = "virtual") =>
        LET want == SelectSeq(fsys.index,
                        LAMBDA e : startswith(casefold(replace_backslash(e.filename)),
                                              casefold(replace_backslash(result.name))))
        IN /\ result.r.status = "ok"
           /\ Len(result.r.files) = Len(want)
           /\ \A i \in 1..Len(want) :
                Cardinality({n \in 1..Len(result.r.files) :
                    result.r.files[n].data = want[i].filename}) = 1

-----------------------------------------------------------------------------
(* Equality of filesystem objects *)

\* a.zip again, under another spelling of its path and with other entries
\* (ZipFileSystem(path, zipfile) takes the archive from its caller)
ZipA2 == ZipFileSystem(P_dot_azip, << [filename |-> P_o, CRC |-> 13] >>)

\* a VPKFileSystem whose path is that of ZipA
VpkZ == VPKFileSystem(P_azip, << [filename |-> P_x, dir |-> P_empty, crc |-> 53] >>)

\* the mapping of VirtA given in another order, and with another encoding
VirtA2 ==
    VirtualFileSystem(
        << [filename |-> P_o, data |-> 33],
           [filename |-> P_dx, data |-> 31],
           [filename |-> P_dxx, data |-> 32] >>, "utf8")
VirtA3 ==
    VirtualFileSystem(
        << [filename |-> P_dx, data |-> 31],
           [filename |-> P_dxx, data |-> 32],
           [filename |-> P_o, data |-> 33] >>, "latin1")

EqObjects ==
    { RawA, RawU, RawFileSystem(P_root_d, TRUE), RawFileSystem(P_root_d_up, TRUE),
      ZipA, ZipA2, ZipB, VpkA, VpkZ,
      VirtA, VirtA2, VirtA3, VirtB,
      ChainObject(<<>>), ChainZZ, ChainVR,
      ChainObject(<< [sys |-> ZipA, prefix |-> P_empty] >>),
      ChainObject(<< [sys |-> ZipA2, prefix |-> P_empty] >>),
      ChainObject(<< [sys |-> ZipA, prefix |-> P_d] >>),
      ChainObject(<< [sys |-> ZipA, prefix |-> P_dslash] >>),
      ChainObject(<< [sys |-> VirtA2, prefix |-> P_d],
                     [sys |-> RawU, prefix |-> P_empty] >>) }

InitEq ==
    /\ hostFoldsCase \in BOOLEAN
    /\ io_remaps = <<>>
    /\ outputs = OutputObjects
    /\ systems = <<>>
    /\ calls = <<>>
    /\ fsys \in EqObjects
    /\ other \in EqObjects
    /\ held = NoFile
    /\ result = NoResult
    /\ iters = <<>>

\* fsys == other
Compare ==
    /\ result' = [op |-> "eq", r |-> python_eq(fsys, other)]
    /\ UNCHANGED <<io_remaps, outputs, hostFoldsCase, systems, calls, fsys, other, held, iters>>

NextEq == Compare

SpecEq == InitEq /\ [][NextEq]_vars

\* C9 as stated: two objects of the same backend type are equal if and only
\* if their normalized root locators are equal, VirtualFileSystem and
\* FileSystemChain included; objects of different types are not equal.
C9_EqualIffSameLocator ==
    result.op = "eq" =>
        IF fsys.kind = other.kind
        THEN result.r <=> (normpath(fsys.path) = normpath(other.path))
        ELSE ~result.r

\* Equality as it is meant for the backends that are not chains.
BackendsEqual(a, b) ==
    /\ a.kind = b.kind
    /\ IF a.kind = "virtual"
       THEN /\ a.bytes_encoding = b.bytes_encoding
            /\ \A e \in {a.index[i] : i \in 1..Len(a.index)} :
                   \E j \in 1..Len(b.index) : b.index[j] = e
            /\ Len(a.index) = Len(b.index)
       ELSE normpath(a.path) = normpath(b.path)

\* C9 amended: objects of different backend types are never equal. Two
\* RawFileSystem, ZipFileSystem or VPKFileSystem objects are equal if and
\* only if their normalized root locators are equal, whatever their indexes
\* hold. Two VirtualFileSystem objects (same locator always) are equal if
\* and only if their encodings are equal and their mappings hold the same
\* entries. Two FileSystemChain objects (same locator always) are equal if
\* and only if their member lists have equal backends and identical
\* prefixes, position by position.
C9_Equality ==
    result.op = "eq" =>
        IF fsys.kind # other.kind THEN ~result.r
        ELSE IF fsys.kind = "chain"
        THEN result.r <=>
                /\ Len(fsys.systems) = Len(other.systems)
                /\ \A i \in 1..Len(fsys.systems) :
                    /\ BackendsEqual(fsys.systems[i].sys, other.systems[i].sys)
                    /\ fsys.systems[i].prefix = other.systems[i].prefix
        ELSE result.r <=> BackendsEqual(fsys, other)

\* Two ZipFileSystem objects found equal whose paths are spelled differently
\* and whose indexes differ.
C9_Witness ==
    /\ result.op = "eq"
    /\ result.r
    /\ fsys.kind = "zip"
    /\ fsys.path # other.path
    /\ fsys.index # other.index

-----------------------------------------------------------------------------
(* Cache keys *)

\* A cache key that was returned.
KeyReturned(key) == [Returned(NoFile, <<>>, 0) EXCEPT !.value = key]

\* FileSystem._get_cache_key, which VirtualFileSystem inherits
FileSystem_get_cache_key(self, file) == KeyReturned(CACHE_KEY_INVALID)

\* return self._get_data(file).CRC
Zip_get_cache_key(self, file) == KeyReturned(file.data.data)

\* return self._get_data(file).crc
VPK_get_cache_key(self, file) == KeyReturned(file.data.data)

\* File.cache_key() of a member's File: self.sys._get_cache_key(self)
Member_cache_key(file) ==
    CASE file.sys.kind = "raw" -> Raw_get_cache_key(file.sys, file)
      [] file.sys.kind = "zip" -> Zip_get_cache_key(file.sys, file)
      [] file.sys.kind = "vpk" -> VPK_get_cache_key(file.sys, file)
      [] OTHER -> FileSystem_get_cache_key(file.sys, file)

\* A chain that does not override _get_cache_key.
Chain_get_cache_key_inherited(self, file) == FileSystem_get_cache_key(self, file)

\* FileSystemChain._get_cache_key
Chain_get_cache_key(self, file) ==
    IF file.sys.kind # "chain" THEN Raised("ValueError", <<>>)
    ELSE Member_cache_key(file.data)

\* f.cache_key() on a File of fs
File_cache_key(fs, file) ==
    IF fs.kind = "chain" THEN Chain_get_cache_key(fs, file)
    ELSE Member_cache_key(file)

\* The folders listed to obtain Files.
KeyFolders == {P_empty, P_d}

\* f = fsys[name]
KeyLookup ==
    /\ \E name \in TestNames :
        /\ result' = [op |-> "lookup", name |-> name, r |-> FS_get_file(fsys, name)]
        /\ result'.r.status = "ok"
        /\ held' = result'.r.file
    /\ UNCHANGED <<io_remaps, outputs, hostFoldsCase, systems, calls, fsys, other, iters>>

\* The File at place n of a listing is kept.
KeepListed(folder, listing, n) ==
    /\ listing.status = "ok"
    /\ n <= Len(listing.files)
    /\ result' = [op |-> "listed", name |-> folder, r |-> listing]
    /\ held' = listing.files[n]

\* for f in fsys.walk_folder(folder): one of the Files yielded is kept
KeyListed ==
    /\ \E folder \in KeyFolders, n \in 1..Len(DiskFiles) :
        KeepListed(folder, FS_walk_folder(fsys, folder), n)
    /\ UNCHANGED <<io_remaps, outputs, hostFoldsCase, systems, calls, fsys, other, iters>>

\* held.cache_key()
KeyCacheKey ==
    /\ IsFile(held)
    /\ result' = [op |-> "cache_key", name |-> held.path,
                  r |-> File_cache_key(fsys, held)]
    /\ UNCHANGED <<io_remaps, outputs, hostFoldsCase, systems, calls, fsys, other, held, iters>>

NextKey == KeyLookup \/ KeyListed \/ KeyCacheKey

SpecKey == InitFS /\ [][NextKey]_vars

\* The checksum the archive stores for the entry that path names (as a set:
\* empty if the archive has no such entry).
StoredChecksums(sys, path) ==
    {sys.index[i].data : i \in {n \in 1..Len(sys.index) :
        sys.index[n].key = casefold(replace_backslash(path))}}

-----------------------------------------------------------------------------
(* get_filesystem *)

P_ezip == <<"/", "e", ".", "z", "i", "p">>
P_qzip == <<"q", ".", "z", "i", "p">>
P_prar == <<"p", ".", "r", "a", "r">>
P_zip == <<"z", "i", "p">>
P_azipx == <<"a", ".", "z", "i", "p", "x">>

\* The archives on disk, by the path they are opened with: a.zip, b.zip and
\* c.vpk in the working directory.
ZipFile_infolist(path) ==
    LET zip == IF normpath(path) = P_azip THEN ZipA ELSE ZipB
    IN [i \in 1..Len(zip.index) |->
           [filename |-> zip.index[i].filename, CRC |-> zip.index[i].data]]

VPK_files(path) ==
    [i \in 1..Len(VpkA.index) |->
        [filename |-> VpkA.index[i].filename, dir |-> VpkA.index[i].dir,
         crc |-> VpkA.index[i].data]]

\* What a constructor call gave: the object, or the exception it raised.
Constructed(cls, fs) == [status |-> "ok", called |-> cls, fs |-> fs]
ConstructorRaised(cls, exc) == [status |-> exc, called |-> cls, fs |-> NoSys]

\* RawFileSystem(path)
new_RawFileSystem(path) == Constructed("raw", RawFileSystem(path, TRUE))

\* ZipFileSystem(path): ZipFile(path) opens the archive
new_ZipFileSystem(path) ==
    IF normpath(path) \in {P_azip, P_bzip}
    THEN Constructed("zip", ZipFileSystem(path, ZipFile_infolist(path)))
    ELSE ConstructorRaised("zip", "FileNotFoundError")

\* VPKFileSystem(path): VPK(path) opens the archive
new_VPKFileSystem(path) ==
    Constructed("vpk", VPKFileSystem(path, VPK_files(path)))

\* path[-4:]
last4(path) ==
    IF Len(path) <= 4 THEN path ELSE SubSeq(path, Len(path) - 3, Len(path))

\* The dispatch on ext once the path is known not to be a directory.
by_extension(path, ext) ==
    IF ext = <<".", "z", "i", "p">> THEN new_ZipFileSystem(path)
    ELSE IF ext = <<".", "v", "p", "k">> THEN new_VPKFileSystem(path)
    ELSE ConstructorRaised("none", "ValueError")

\* A dispatcher that looks at the extension before it looks for a directory.
get_filesystem_extension_first(path) ==
    IF last4(path) \in {<<".", "z", "i", "p">>, <<".", "v", "p", "k">>}
    THEN by_extension(path, last4(path))
    ELSE IF isdir(abspath(path)) THEN new_RawFileSystem(path)
    ELSE ConstructorRaised("none", "ValueError")

get_filesystem(path) ==
    IF isdir(abspath(path)) THEN new_RawFileSystem(path)
    ELSE by_extension(path, last4(path))

\* The paths given to get_filesystem.
DispatchPaths ==
    {P_root, P_root_d, P_ezip, P_azip, P_bzip, P_qzip, P_cvpk, P_prar, P_zip,
     P_azipx, P_empty, P_dot_azip}

InitDispatch ==
    /\ hostFoldsCase \in BOOLEAN
    /\ io_remaps = <<>>
    /\ outputs = OutputObjects
    /\ systems = <<>>
    /\ calls = <<>>
    /\ fsys = NoSys
    /\ other = NoSys
    /\ held = NoFile
    /\ result = NoResult
    /\ iters = <<>>

\* fsys = get_filesystem(path); fsys keeps its value if the call raises
GetFilesystem ==
    /\ \E path \in DispatchPaths :
        /\ result' = [op |-> "get_filesystem", name |-> path,
                      r |-> get_filesystem(path)]
        /\ fsys' = IF result'.r.status = "ok" THEN result'.r.fs ELSE fsys
    /\ UNCHANGED <<io_remaps, outputs, hostFoldsCase, systems, calls, other, held, iters>>

\* name in fsys, on the filesystem the dispatcher returned
DispatchedExists ==
    /\ fsys.kind # "none"
    /\ \E name \in TestNames :
        result' = [op |-> "exists", name |-> name, r |-> FS_file_exists(fsys, name)]
    /\ UNCHANGED <<io_remaps, outputs, hostFoldsCase, systems, calls, fsys, other, held, iters>>

NextDispatch == GetFilesystem \/ DispatchedExists

SpecDispatch == InitDispatch /\ [][NextDispatch]_vars

\* The final extension of a path: its last component from the last dot on,
\* empty if the component has no dot.
RECURSIVE FinalExtension(_)
FinalExtension(path) ==
    IF Len(path) = 0 \/ path[Len(path)] = "/" THEN <<>>
    ELSE IF path[Len(path)] = "." THEN <<".">>
    ELSE LET before == FinalExtension(SubSeq(path, 1, Len(path) - 1))
         IN IF before = <<>> THEN <<>> ELSE Append(before, path[Len(path)])

\* The path names a directory of the host.
NamesDirectory(path) ==
    \E i \in 1..Len(DiskFiles) :
        LET comps == NonEmpty(split(DiskFiles[i]))
            given == NonEmpty(split(IF isabs(path) THEN path ELSE join(getcwd, path)))
        IN /\ Len(given) < Len(comps)
           /\ \A n \in 1..Len(given) : SameEntry(given[n], comps[n])

\* C12: get_filesystem on a path naming an existing directory constructs a
\* RawFileSystem on it whatever its extension; otherwise a path whose final
\* extension is .zip is handed to the ZipFileSystem constructor and one whose
\* final extension is .vpk to the VPKFileSystem constructor, and the object
\* built on that path is returned; any other path fails with ValueError (the
\* UnsupportedFormat error) and no constructor is called.
C12_DispatcherRouting ==
    result.op = "get_filesystem" =>
        LET path == result.name
            r == result.r
        IN IF NamesDirectory(path)
           THEN r.status = "ok" /\ r.called = "raw" /\ r.fs.kind = "raw"
                /\ r.fs.path = abspath(path)
           ELSE IF FinalExtension(path) = <<".", "z", "i", "p">>
           THEN /\ r.called = "zip"
                /\ r.status \in {"ok", "FileNotFoundError"}
                /\ r.status = "ok" => (r.fs.kind = "zip" /\ r.fs.path = path)
                /\ path \in {P_azip, P_bzip, P_dot_azip} => r.status = "ok"
           ELSE IF FinalExtension(path) = <<".", "v", "p", "k">>
           THEN r.status = "ok" /\ r.called = "vpk" /\ r.fs.kind = "vpk"
                /\ r.fs.path = path
           ELSE r.status = "ValueError" /\ r.called = "none" /\ r.fs = NoSys

\* The dispatcher was given a directory whose name ends in .zip and returned
\* a RawFileSystem, on which a file was then found.
C12_Witness ==
    /\ result.op = "exists"
    /\ result.r.status = "True"
    /\ fsys.kind = "raw"
    /\ fsys.path = P_ezip

-----------------------------------------------------------------------------
(* bsp_transform.Context: add_io_remap *)

\* The Context during a call: its _io_remaps, the Output objects' output
\* fields, and how the call ended.
ContextState(remaps, outs_fields, status) ==
    [remaps |-> remaps, outputs |-> outs_fields, status |-> status]

\* The loop of add_io_remap from the i-th of the outputs given.
RECURSIVE add_io_remap_from(_, _, _, _)

\* self._io_remaps[name, inp_name].append(out), k being the place of the key
\* in the dict (0: the subscription raises KeyError)
io_remaps_append(ctx, name, outs, i, k) ==
    IF k = 0 THEN [ctx EXCEPT !.status = "KeyError"]
    ELSE add_io_remap_from(
             [ctx EXCEPT !.remaps[k].outs = Append(@, outs[i])], name, outs, i + 1)

\* inp_name = out.output.casefold(); out.output = ''
add_io_remap_out(ctx, name, outs, i, inp_name) ==
    io_remaps_append([ctx EXCEPT !.outputs[outs[i]] = <<>>], name, outs, i,
                     KeyIndex(ctx.remaps, <<name, inp_name>>))

add_io_remap_from(ctx, name, outs, i) ==
    IF i > Len(outs) THEN ctx
    ELSE add_io_remap_out(ctx, name, outs, i, casefold(ctx.outputs[outs[i]]))

\* Context.add_io_remap(name, *outputs)
add_io_remap(ctx, name, outs) == add_io_remap_from(ctx, casefold(name), outs, 1)

\* The names, the outputs of one call, and the outputs registered in all.
RemapNames == {<<"R">>, <<"r">>, <<"d">>}
MaxOutputs == 2
MaxRegistered == 3

OutputLists == UNION {[1..n -> 1..Len(OutputObjects)] : n \in 0..MaxOutputs}

\* context = Context(filesys, vmf, pack, bsp_path, game)
InitContext ==
    /\ hostFoldsCase = FALSE
    /\ io_remaps = <<>>
    /\ outputs = OutputObjects
    /\ systems = <<>>
    /\ calls = <<>>
    /\ fsys = NoSys
    /\ other = NoSys
    /\ held = NoFile
    /\ result = NoResult
    /\ iters = <<>>

\* The call has ended (returned or raised): the Context keeps what it did.
AddIoRemapDone(name, outs, ctx) ==
    /\ io_remaps' = ctx.remaps
    /\ outputs' = ctx.outputs
    /\ result' = [op |-> "add_io_remap", name |-> name, outs |-> outs,
                  before |-> outputs, status |-> ctx.status]

\* ctx.add_io_remap(name, *outs), called by a transformation; calls keeps
\* the outputs given so far, with the name they were given under
AddIoRemap ==
    /\ \E name \in RemapNames, outs \in OutputLists :
        /\ Len(calls) + Len(outs) <= MaxRegistered
        /\ AddIoRemapDone(name, outs,
               add_io_remap(ContextState(io_remaps, outputs, "ok"), name, outs))
        /\ calls' = calls \o [i \in 1..Len(outs) |-> [name |-> name, out |-> outs[i]]]
    /\ UNCHANGED <<hostFoldsCase, systems, fsys, other, held, iters>>

\* A transformation sets the output field of an Output it is about to register.
SetOutput ==
    /\ \E o \in 1..Len(OutputObjects) :
        /\ outputs[o] # OutputObjects[o]
        /\ outputs' = [outputs EXCEPT ![o] = OutputObjects[o]]
    /\ result' = [op |-> "set_output"]
    /\ UNCHANGED <<io_remaps, hostFoldsCase, systems, calls, fsys, other, held, iters>>

NextContext == AddIoRemap \/ SetOutput

SpecContext == InitContext /\ [][NextContext]_vars

\* The Outputs the table holds under key, an empty list if it has no such key.
Remapped(key) ==
    IF KeyIndex(io_remaps, key) = 0 THEN <<>>
    ELSE io_remaps[KeyIndex(io_remaps, key)].outs

\* C13: add_io_remap(name, out_1..out_n) succeeds for any name and outputs,
\* also for a (name, input) pair never registered before; after it each
\* output given is in the table's list under the key (case-folded name,
\* case-folded output name it had), the lists holding the outputs in the
\* order they were given over all calls, and the output field of each
\* output given is the empty string.
C13_AddIoRemap ==
    result.op = "add_io_remap" =>
        /\ result.status = "ok"
        /\ \A i \in 1..Len(result.outs) :
            /\ outputs[result.outs[i]] = <<>>
            /\ \E inp \in {casefold(result.before[result.outs[i]]), <<>>} :
                \E n \in 1..Len(Remapped(<<casefold(result.name), inp>>)) :
                    Remapped(<<casefold(result.name), inp>>)[n] = result.outs[i]
        /\ \A k \in 1..Len(io_remaps) :
            LET given == SelectSeq(calls,
                             LAMBDA c : casefold(c.name) = io_remaps[k].key[1])
            IN \A a, b \in 1..Len(io_remaps[k].outs) :
                a < b => \E x, y \in 1..Len(given) :
                    /\ x < y
                    /\ given[x].out = io_remaps[k].outs[a]
                    /\ given[y].out = io_remaps[k].outs[b]

-----------------------------------------------------------------------------
(* Opening a File of a chain whose members change *)

\* The paths looked up and opened.
OpenNames == {P_X, P_dx}

\* f = chain[name]; the File is kept
OpenLookup ==
    /\ \E name \in OpenNames :
        /\ result' = [op |-> "lookup", name |-> name,
                      r |-> Chain_get_file(systems, name)]
        /\ result'.r.status = "ok"
        /\ held' = result'.r.file
    /\ UNCHANGED <<io_remaps, outputs, hostFoldsCase, systems, calls, fsys, other, iters>>

\* f.open_bin() / f.open_str(): chain.open_bin(f)
OpenHeld ==
    /\ IsFile(held)
    /\ result' = [op |-> "open_file", name |-> held.path,
                  r |-> Chain_open(systems, held, TRUE)]
    /\ UNCHANGED <<io_remaps, outputs, hostFoldsCase, systems, calls, fsys, other, held, iters>>

\* chain.open_bin(name) / chain.open_str(name)
OpenName ==
    /\ \E name \in OpenNames :
        result' = [op |-> "open", name |-> name,
                   r |-> Chain_open(systems, name, FALSE)]
    /\ UNCHANGED <<io_remaps, outputs, hostFoldsCase, systems, calls, fsys, other, held, iters>>

NextOpen == AddSys \/ OpenLookup \/ OpenHeld \/ OpenName

SpecOpen == InitChain /\ [][NextOpen]_vars

\* What a member backend stores for one of its Files.
ContentOf(file) ==
    CASE file.sys.kind = "raw" ->
            DiskIndex(abspath(join(file.sys.path, file.data)))
      [] file.sys.kind = "virtual" ->
            file.sys.index[KeyIndex(file.sys.index,
                                    Virtual_clean_path(file.path))].data
      [] OTHER -> file.data.data

\* C14: opening a File obtained from the chain reads from the member backend
\* that resolved it when the File was made, whatever members were added
\* since, also in front of it; opening a path string reads from the member
\* that a lookup in the present member order finds, and fails as that lookup
\* fails.
C14_OpenHeldNoSearch ==
    /\ result.op = "open_file" =>
        /\ result.r.status = "ok"
        /\ result.r.file.sys = held.data.sys
        /\ result.r.file.data = ContentOf(held.data)
    /\ result.op = "open" =>
        LET D == Resolving(result.name) \cup Failing(result.name) IN
        IF D = {} THEN result.r.status = "FileNotFoundError"
        ELSE /\ result.r.status = MemberAnswer(Lowest(D), result.name).status
             /\ result.r.status = "ok" =>
                 /\ result.r.file.sys = systems[Lowest(D)].sys
                 /\ result.r.file.data =
                        ContentOf(MemberAnswer(Lowest(D), result.name).file)

\* A File is opened after a member holding the same path was added in front
\* of the member it came from: the stream is from the old member, though a
\* lookup of the path now finds the new one.
C14_Witness ==
    /\ result.op = "open_file"
    /\ Len(calls) >= 2
    /\ calls[Len(calls)].priority
    /\ systems[1].sys # held.data.sys
    /\ result.r.file.sys = held.data.sys
    /\ Chain_get_file(systems, held.path).status = "ok"
    /\ Chain_get_file(systems, held.path).member = 1
    /\ ContentOf(Chain_get_file(systems, held.path).file.data) # result.r.file.data

-----------------------------------------------------------------------------
(* Listing and lookup of a chain *)

\* C15: for every File f that the deduplicating listing of a chain yields,
\* the chain's lookup of f.path succeeds and resolves to the member backend
\* and the stored file that f's inner File stands for.
C15_ListingLookupAgree ==
    \A k \in 1..Len(iters) :
        iters[k].kind = "walk_folder" =>
            \A a \in 1..Len(iters[k].out) :
                LET f == iters[k].out[a].file
                    r == Chain_get_file(systems, f.path)
                IN /\ r.status = "ok"
                   /\ r.member = iters[k].out[a].member
                   /\ Underlying(r.file) = Underlying(f)

-----------------------------------------------------------------------------
(* __hash__ *)
(* A hash is modelled by the data it is computed from: a str by its         *)
(* characters, a tuple by its items' hashes in order, and a ^ b by the set   *)
(* of its two operands. Hashes of equal data are equal; hashes of different  *)
(* data are taken to differ.                                                 *)

hash_str(str) == <<"str", str>>
hash_tuple(items) == <<"tuple", items>>
hash_xor(a, b) == <<"xor", {a, b}>>

\* type(self).__name__
ClassName(self) ==
    CASE self.kind = "raw" -> <<"RawFileSystem">>
      [] self.kind = "zip" -> <<"ZipFileSystem">>
      [] self.kind = "vpk" -> <<"VPKFileSystem">>

\* FileSystem.__hash__
FileSystem_hash(self) == hash_str(ClassName(self) \o normpath(self.path))

\* VirtualFileSystem.__hash__: the values of _mapping are (filename, data)
\* pairs, in the order of insertion
Virtual_hash(self) ==
    hash_xor(hash_str(self.bytes_encoding),
             hash_tuple([i \in 1..Len(self.index) |->
                 hash_tuple(<<hash_str(self.index[i].filename),
                              self.index[i].data>>)]))

\* hash(obj) of a filesystem object
RECURSIVE python_hash(_)

\* FileSystemChain.__hash__: hash(tuple(self.systems))
Chain_hash(self) ==
    hash_tuple([i \in 1..Len(self.systems) |->
        hash_tuple(<<python_hash(self.systems[i].sys),
                     hash_str(self.systems[i].prefix)>>)])

python_hash(obj) ==
    CASE obj.kind = "virtual" -> Virtual_hash(obj)
      [] obj.kind = "chain" -> Chain_hash(obj)
      [] OTHER -> FileSystem_hash(obj)

\* hash(fsys), hash(other): as when both are used as keys of one dict
HashBoth ==
    /\ result' = [op |-> "hash", a |-> python_hash(fsys), b |-> python_hash(other)]
    /\ UNCHANGED <<io_remaps, outputs, hostFoldsCase, systems, calls, fsys, other, held, iters>>

NextHash == Compare \/ HashBoth

SpecHash == InitEq /\ [][NextHash]_vars

\* C16: two filesystem objects that compare equal have equal hashes, for
\* every filesystem type.
C16_EqualHashEqual ==
    result.op = "hash" =>
        (python_eq(fsys, other) => result.a = result.b)

====
